---- MODULE Spec2Model ----
(***************************************************************************)
(* Model of the two generators of bag3_analog:                             *)
(*   - RDAC.draw_layout                 (layout/rdac.py)                   *)
(*   - bag3_analog__high_pass_diff.design (schematic/high_pass_diff.py)    *)
(* The host framework invokes one generator per design request; gen says   *)
(* which one, pc is the position inside its single pass.                   *)
(***************************************************************************)
EXTENDS Integers, Sequences, FiniteSets, TLC

VARIABLES
    gen,          \* "rdac" or "hpf": the generator the host invoked
    pc,           \* position inside draw_layout / design
    err,          \* "none", "AssertionError" or "ValueError"
    \* ---- RDAC.draw_layout
    params,       \* self.params: num_dec, dec_params.num_sel_row/num_sel_col
    res_master,   \* bound_box.w/h and core.core_coord0 of the ladder master
    dec_master,   \* bound_box.w/h and core.pg_coord0 of the decoder master
    h_pitch,      \* self.grid.get_size_pitch(xxm_layer)[1]
    tot_w, tot_h, start_x, off_y, idx,
    dec_list,     \* list of decoder instances, in append order
    instances,    \* instances added by add_instance, with their placed box
    wires,        \* wires drawn by add_wires / connect_to_tracks
    pins,         \* pins exported by add_pin
    conns,        \* connect_bbox_to_track_wires calls (decoder in <- ladder out)
    size,         \* argument of set_size_from_bound_box, <<>> until it is called
    sch_params,   \* self.sch_params, <<>> until it is set
    \* ---- bag3_analog__high_pass_diff.design
    hp,           \* the arguments of design()
    sch_pins,     \* pins of the schematic
    removed,      \* instances removed by remove_instance
    designed,     \* design_resistor calls
    mres,         \* metal resistor design calls
    arrayed,      \* array_instance calls
    caps          \* capacitor variants parameterized and reconnected

rdacVars == <<params, res_master, dec_master, h_pitch, tot_w, tot_h, start_x, off_y,
              idx, dec_list, instances, wires, pins, conns, size, sch_params>>
hpfVars == <<hp, sch_pins, removed, designed, mres, arrayed, caps>>
vars == <<gen, pc, err, rdacVars, hpfVars>>

\* ---- bounds of the model
MaxNumDec == 3
MaxSel == 1
MaxDim == 2
MaxCoord == 2
MaxPitch == 2
MaxNdum == 1
MaxCap == 1

(***************************************************************************)
(* RDAC.draw_layout                                                        *)
(***************************************************************************)

\* f'sel<{idx}>' and the like: a pin name is its base and its index;
\* an un-indexed name ('out', 'VDD') has index -1.
PinName(base, i) == <<base, i>>
Plain(base) == <<base, -1>>

\* num_in = 1 << num_sel
RECURSIVE Shl1(_)
Shl1(n) == IF n = 0 THEN 1 ELSE 2 * Shl1(n - 1)

num_sel == params.num_sel_col + params.num_sel_row
num_in == Shl1(num_sel)

Max(a, b) == IF a >= b THEN a ELSE b

\* Transform(dx, dy, mode) applied to a master whose bound box is (0, 0, w, h):
\* R0 translates, MY mirrors about the y axis and then translates.
PlacedBox(w, h, dx, dy, mode) ==
    IF mode = "MY"
    THEN [xl |-> dx - w, yl |-> dy, xh |-> dx, yh |-> dy + h]
    ELSE [xl |-> dx, yl |-> dy, xh |-> dx + w, yh |-> dy + h]

Inst(name, master, box) == [name |-> name, master |-> master, box |-> box]

RdacInit ==
    /\ params \in [num_dec : 0..MaxNumDec, num_sel_row : 1..MaxSel, num_sel_col : 1..MaxSel]
    /\ res_master = [w |-> 0, h |-> 0, coord0 |-> 0]
    /\ dec_master = [w |-> 0, h |-> 0, coord0 |-> 0]
    /\ h_pitch = 0
    /\ tot_w = 0 /\ tot_h = 0 /\ start_x = 0 /\ off_y = 0 /\ idx = 0
    /\ dec_list = <<>>
    /\ instances = {}
    /\ wires = {}
    /\ pins = {}
    /\ conns = {}
    /\ size = <<>>
    /\ sch_params = <<>>

\* lines 47-76: the masters are made (no instance is added), the geometry is read
MakeMasters ==
    /\ gen = "rdac" /\ pc = "start"
    /\ \E rw \in 1..MaxDim, rh \in 1..MaxDim, rc \in 0..MaxCoord :
         res_master' = [w |-> rw, h |-> rh, coord0 |-> rc]
    /\ \E dw \in 1..MaxDim, dh \in 1..MaxDim, dc \in 0..MaxCoord :
         dec_master' = [w |-> dw, h |-> dh, coord0 |-> dc]
    /\ h_pitch' \in 1..MaxPitch
    /\ tot_w' = res_master'.w + params.num_dec * dec_master'.w
    /\ pc' = "assert"
    /\ UNCHANGED <<gen, err, params, tot_h, start_x, off_y, idx, dec_list, instances,
                   wires, pins, conns, size, sch_params, hpfVars>>

\* line 77: assert res_coord0 < dec_coord0
AssertMutLe(res_coord0, dec_coord0) == res_coord0 <= dec_coord0
AssertCoord(res_coord0, dec_coord0) == res_coord0 < dec_coord0

CheckCoord ==
    /\ gen = "rdac" /\ pc = "assert"
    /\ IF AssertCoord(res_master.coord0, dec_master.coord0)
       THEN pc' = "place_dec" /\ err' = err
       ELSE pc' = "error" /\ err' = "AssertionError"
    /\ UNCHANGED <<gen, rdacVars, hpfVars>>

\* lines 80-89: which branch the decoder count takes
NumDecMutAny(n) == IF n = 2 THEN "two" ELSE "one"
NumDecBranch(n) == IF n = 2 THEN "two" ELSE IF n = 1 THEN "one" ELSE "unsupported"

\* lines 80-92
PlaceDecoders ==
    /\ gen = "rdac" /\ pc = "place_dec"
    /\ LET br == NumDecBranch(params.num_dec)
           dec1 == Inst("dec1_inst", "dec",
                        PlacedBox(dec_master.w, dec_master.h, dec_master.w, 0, "MY"))
           sx == IF br = "two" THEN dec_master.w ELSE 0
           dec0 == Inst("dec0_inst", "dec",
                        PlacedBox(dec_master.w, dec_master.h, sx + res_master.w, 0, "R0"))
       IN IF br = "unsupported"
          THEN /\ pc' = "error" /\ err' = "ValueError"
               /\ UNCHANGED <<start_x, dec_list, instances>>
          ELSE /\ pc' = "place_res" /\ err' = err
               /\ start_x' = sx
               /\ dec_list' = IF br = "two" THEN <<"dec1_inst", "dec0_inst">>
                              ELSE <<"dec0_inst">>
               /\ instances' = instances \cup (IF br = "two" THEN {dec1, dec0} ELSE {dec0})
    /\ UNCHANGED <<gen, params, res_master, dec_master, h_pitch, tot_w, tot_h, off_y, idx,
                   wires, pins, conns, size, sch_params, hpfVars>>

\* line 93: off_y = dec_coord0 - res_coord0 - h_pitch
OffYMutNoHack(dec_coord0, res_coord0, hpitch) == dec_coord0 - res_coord0
OffY(dec_coord0, res_coord0, hpitch) == dec_coord0 - res_coord0 - hpitch

\* lines 93-97
PlaceLadder ==
    /\ gen = "rdac" /\ pc = "place_res"
    /\ off_y' = OffY(dec_master.coord0, res_master.coord0, h_pitch)
    /\ instances' = instances \cup
         {Inst("res_inst", "res",
               PlacedBox(res_master.w, res_master.h, start_x, off_y', "R0"))}
    /\ tot_h' = Max(dec_master.h, res_master.h + off_y')
    /\ size' = <<0, 0, tot_w, tot_h'>>
    /\ idx' = 0
    /\ pc' = "sel"
    /\ UNCHANGED <<gen, err, params, res_master, dec_master, h_pitch, tot_w, start_x,
                   dec_list, wires, pins, conns, sch_params, hpfVars>>

\* lines 101-115, one iteration: the wires drawn and the pins exported for sel<idx>
SelWires(n, i) ==
    {[layer |-> "vm", inst |-> "dec0_inst", pin |-> PinName("sel", i)]} \cup
    (IF n = 2 THEN {[layer |-> "vm", inst |-> "dec1_inst", pin |-> PinName("sel", i)]}
     ELSE {})

SelPinsMutUnnumbered(n, i) ==
    {[name |-> PinName("sel", i), src |-> {<<"dec0_inst", PinName("sel", i)>>}]}
SelPins(n, i) ==
    IF n = 2
    THEN {[name |-> PinName("sel0", i), src |-> {<<"dec0_inst", PinName("sel", i)>>}],
          [name |-> PinName("sel1", i), src |-> {<<"dec1_inst", PinName("sel", i)>>}]}
    ELSE {[name |-> PinName("sel", i), src |-> {<<"dec0_inst", PinName("sel", i)>>}]}

ExportSel ==
    /\ gen = "rdac" /\ pc = "sel" /\ idx < num_sel
    /\ wires' = wires \cup SelWires(params.num_dec, idx)
    /\ pins' = pins \cup SelPins(params.num_dec, idx)
    /\ idx' = idx + 1
    /\ pc' = IF idx + 1 < num_sel THEN "sel" ELSE "out"
    /\ UNCHANGED <<gen, err, params, res_master, dec_master, h_pitch, tot_w, tot_h,
                   start_x, off_y, dec_list, instances, conns, size, sch_params, hpfVars>>

\* lines 118-130
OutPins(n) ==
    IF n = 2
    THEN {[name |-> Plain("out0"), src |-> {<<"dec0_inst", Plain("out")>>}],
          [name |-> Plain("out1"), src |-> {<<"dec1_inst", Plain("out")>>}]}
    ELSE {[name |-> Plain("out"), src |-> {<<"dec0_inst", Plain("out")>>}]}

ExportOut ==
    /\ gen = "rdac" /\ pc = "out"
    /\ wires' = wires \cup
         {[layer |-> "ym", inst |-> "dec0_inst", pin |-> Plain("out")]} \cup
         (IF params.num_dec = 2
          THEN {[layer |-> "ym", inst |-> "dec1_inst", pin |-> Plain("out")]} ELSE {})
    /\ pins' = pins \cup OutPins(params.num_dec)
    /\ idx' = 0
    /\ pc' = "taps"
    /\ UNCHANGED <<gen, err, params, res_master, dec_master, h_pitch, tot_w, tot_h,
                   start_x, off_y, dec_list, instances, conns, size, sch_params, hpfVars>>

\* lines 133-138, one iteration: ladder out<idx> to in<idx> of each decoder
TapConnsMutDec0Only(n, i) == {[dec |-> "dec0_inst", in |-> i, out |-> i]}
TapConns(n, i) ==
    {[dec |-> "dec0_inst", in |-> i, out |-> i]} \cup
    (IF n = 2 THEN {[dec |-> "dec1_inst", in |-> i, out |-> i]} ELSE {})

ConnectTap ==
    /\ gen = "rdac" /\ pc = "taps" /\ idx < num_in
    /\ conns' = conns \cup TapConns(params.num_dec, idx)
    /\ idx' = idx + 1
    /\ pc' = IF idx + 1 < num_in THEN "taps" ELSE "supplies"
    /\ UNCHANGED <<gen, err, params, res_master, dec_master, h_pitch, tot_w, tot_h,
                   start_x, off_y, dec_list, instances, wires, pins, size, sch_params,
                   hpfVars>>

BoxOf(name) == (CHOOSE i \in instances : i.name = name).box

\* lines 176-185: the side of the ladder a decoder is on (bound_box.xm compared)
DecSide(name) ==
    IF BoxOf(name).xl + BoxOf(name).xh > BoxOf("res_inst").xl + BoxOf("res_inst").xh
    THEN "right" ELSE "left"

\* lines 142-194: supplies of the ladder and of every decoder of dec_list are brought
\* to yym_layer and exported as one VDD pin and one VSS pin (connect=True)
SupplyPin(net) ==
    [name |-> Plain(net),
     src |-> {<<"res_inst", Plain(net)>>} \cup
             {<<dec_list[k], Plain(net)>> : k \in 1..Len(dec_list)}]

Supplies ==
    /\ gen = "rdac" /\ pc = "supplies"
    /\ wires' = wires \cup
         {[layer |-> "yym", inst |-> "res_inst", pin |-> Plain(net)] : net \in {"VDD", "VSS"}}
         \cup
         {[layer |-> "yym_" \o DecSide(dec_list[k]), inst |-> dec_list[k], pin |-> Plain(net)] :
            k \in 1..Len(dec_list), net \in {"VDD", "VSS"}}
    /\ pins' = pins \cup {SupplyPin("VDD"), SupplyPin("VSS")}
    /\ pc' = "sch_params"
    /\ UNCHANGED <<gen, err, params, res_master, dec_master, h_pitch, tot_w, tot_h,
                   start_x, off_y, idx, dec_list, instances, conns, size, sch_params,
                   hpfVars>>

\* lines 197-201
SetSchParams ==
    /\ gen = "rdac" /\ pc = "sch_params"
    /\ sch_params' = <<"res_master.sch_params", "dec_master.sch_params", params.num_dec>>
    /\ pc' = "done"
    /\ UNCHANGED <<gen, err, params, res_master, dec_master, h_pitch, tot_w, tot_h,
                   start_x, off_y, idx, dec_list, instances, wires, pins, conns, size,
                   hpfVars>>

(***************************************************************************)
(* bag3_analog__high_pass_diff.design                                      *)
(***************************************************************************)

\* Python values that the code tests by type: a tag and the payload as a tuple.
PyInt(n) == [t |-> "int", v |-> <<n>>]
PyFloat(c) == [t |-> "float", v |-> <<c>>]
PyTuple(seq) == [t |-> "tuple", v |-> seq]
PyStr(seq) == [t |-> "str", v |-> seq]

\* Python == : numbers compare by value, a str never equals a number
PyEq(a, b) ==
    IF a.t \in {"int", "float"} /\ b.t \in {"int", "float"}
    THEN a.v = b.v
    ELSE a.t = b.t /\ a.v = b.v

\* bag.math.float_to_si_string (line 41, called at line 169): the number as a str
float_to_si_string(c) == PyStr(<<c>>)

\* None, or a (layer, w, l) triple
None == <<>>
ResInfos == {None, <<"layer", "w", "l">>}

\* the values of ndum the model feeds: an int, a (par, ser) pair, an empty tuple
NdumValues ==
    {PyInt(n) : n \in 0..MaxNdum} \cup
    {PyTuple(<<np, ns>>) : np \in 0..MaxNdum, ns \in 0..MaxNdum} \cup
    {PyTuple(<<>>)}

\* the values of cap_val: one float, or (main, bias, input, output)
CapValues ==
    {PyFloat(1)} \cup
    {PyTuple(<<1, pb, pi, po>>) : pb \in 0..MaxCap, pi \in 0..MaxCap, po \in 0..MaxCap}

\* the pins of the schematic template that design() names (lines 111, 112, 184)
TemplatePins == {"biasp", "biasn", "BULK"}

HpfInit ==
    /\ hp \in [nser : {1}, ndum : NdumValues,
               res_in_info : ResInfos, res_out_info : ResInfos,
               sub_name : {"VDD", "VSS"}, bias_diff : BOOLEAN,
               connect_res_to_cap_res_metal : BOOLEAN, connect_dum_to_sub : BOOLEAN,
               cap_val : CapValues, extracted : BOOLEAN]
    /\ sch_pins = TemplatePins
    /\ removed = {}
    /\ designed = {}
    /\ mres = {}
    /\ arrayed = {}
    /\ caps = {}

\* lines 102-106
has_res_in == hp.res_in_info # None
has_res_out == hp.res_out_info # None
res_out_conn_pfx == IF hp.connect_res_to_cap_res_metal /\ has_res_out THEN "nc_" ELSE ""

\* lines 108-113: the nets bias_p, bias_n
BiasNetsMutKeepN(bias_diff) == IF bias_diff THEN <<"biasp", "biasn">> ELSE <<"bias", "biasn">>
BiasNets(bias_diff) == IF bias_diff THEN <<"biasp", "biasn">> ELSE <<"bias", "bias">>

bias_p == BiasNets(hp.bias_diff)[1]
bias_n == BiasNets(hp.bias_diff)[2]

\* Module.rename_pin / Module.remove_pin on the set of pins
RenamePin(ps, old, new) == (ps \ {old}) \cup {new}
RemovePin(ps, name) == ps \ {name}

\* lines 108-113: the pins after the bias branch
BiasPins(ps, bias_diff) ==
    IF bias_diff THEN ps ELSE RemovePin(RenamePin(ps, "biasp", "bias"), "biasn")

MergeBias ==
    /\ gen = "hpf" /\ pc = "start"
    /\ sch_pins' = BiasPins(sch_pins, hp.bias_diff)
    /\ pc' = "res"
    /\ UNCHANGED <<gen, err, rdacVars, hp, removed, designed, mres, arrayed, caps>>

\* a design_resistor call
ResCall(inst, nser, npar, plus, minus, mid, bulk, connect_mid) ==
    [inst |-> inst, nser |-> nser, npar |-> npar, plus |-> plus, minus |-> minus,
     mid |-> mid, bulk |-> bulk, connect_mid |-> connect_mid]

\* lines 115-123
DesignResistors ==
    /\ gen = "hpf" /\ pc = "res"
    /\ designed' = designed \cup
         {ResCall("XRESP", hp.nser, 1, res_out_conn_pfx \o "outp", bias_p,
                  res_out_conn_pfx \o "outp" \o "_x", hp.sub_name, TRUE),
          ResCall("XRESN", hp.nser, 1, res_out_conn_pfx \o "outn", bias_n,
                  res_out_conn_pfx \o "outn" \o "_x", hp.sub_name, TRUE)}
    /\ pc' = "dum"
    /\ UNCHANGED <<gen, err, rdacVars, hp, sch_pins, removed, mres, arrayed, caps>>

\* lines 129-132: ndum as it is when line 133 unpacks it
NdumNormalized(ndum) ==
    LET a == IF ndum.t = "int" THEN PyTuple(<<ndum.v[1], 1>>) ELSE ndum
    IN IF Len(a.v) = 2 THEN PyTuple(a.v \o <<TRUE>>) ELSE a

\* line 135: `not ndum`, the truth value of the (normalized) tuple
NotNdum(ndum) == Len(ndum.v) = 0

\* lines 127-128
dum_conns == IF hp.connect_dum_to_sub THEN <<hp.sub_name, hp.sub_name>> ELSE <<bias_p, bias_n>>
dum_mid_conns_pfx ==
    IF dum_conns[1] = dum_conns[2] THEN <<hp.sub_name \o "_p", hp.sub_name \o "_n">>
    ELSE dum_conns
dum_names == <<"XRESPD", "XRESND">>

\* lines 125-139
DesignDummies ==
    /\ gen = "hpf" /\ pc = "dum"
    /\ LET ndum == NdumNormalized(hp.ndum)
       IN IF Len(ndum.v) # 3
          THEN \* line 133: the unpacking raises
               /\ pc' = "error" /\ err' = "ValueError"
               /\ UNCHANGED <<removed, designed>>
          ELSE /\ pc' = "mres" /\ err' = err
               /\ removed' = removed \cup
                    {dum_names[k] : k \in {j \in 1..2 : NotNdum(ndum)}}
               /\ designed' = designed \cup
                    {ResCall(dum_names[k], ndum.v[2], ndum.v[1], dum_conns[k], dum_conns[k],
                             dum_mid_conns_pfx[k] \o "_dum_x", hp.sub_name, ndum.v[3]) :
                       k \in {j \in 1..2 : ~NotNdum(ndum)}}
    /\ UNCHANGED <<gen, rdacVars, hp, sch_pins, mres, arrayed, caps>>

\* lines 141-154
DesignMetalRes ==
    /\ gen = "hpf" /\ pc = "mres"
    /\ mres' = mres \cup
         (IF has_res_in
          THEN {[inst |-> n, info |-> hp.res_in_info] : n \in {"XMRESP1", "XMRESN1"}}
          ELSE {}) \cup
         (IF has_res_out
          THEN {[inst |-> n, info |-> hp.res_out_info] : n \in {"XMRESP2", "XMRESN2"}}
          ELSE {})
    /\ removed' = removed \cup
         (IF has_res_in THEN {} ELSE {"XMRESP1", "XMRESN1"}) \cup
         (IF has_res_out THEN {} ELSE {"XMRESP2", "XMRESN2"})
    /\ pc' = "cap"
    /\ UNCHANGED <<gen, err, rdacVars, hp, sch_pins, designed, arrayed, caps>>

\* lines 157-162
cap_in_conn_pfx == IF has_res_in THEN "nc_" ELSE ""
cap_out_conn_pfx == IF has_res_out THEN "nc_" ELSE ""
cap_name_info ==
    <<[inst |-> "XCAPP", in |-> "inp", out |-> "outp", bias |-> bias_p, pfx |-> cap_in_conn_pfx],
      [inst |-> "XCAPN", in |-> "inn", out |-> "outn", bias |-> bias_n, pfx |-> cap_out_conn_pfx]>>

\* lines 167-169: cc, cpb, cpi, cpo
CapStrings(cap_val) ==
    LET cv == IF cap_val.t = "float" THEN <<cap_val.v[1], 0, 0, 0>> ELSE cap_val.v
    IN [k \in 1..4 |-> float_to_si_string(cv[k])]

CapInfo(name, c, plus, minus) == [name |-> name, c |-> c, plus |-> plus, minus |-> minus]

\* lines 171-177: cap_info_list of one side
CapInfoList(ni, cs, sub_name) ==
    <<CapInfo(ni.inst \o "C", cs[1], ni.pfx \o ni.in, ni.pfx \o ni.out)>> \o
    (IF ~PyEq(cs[2], PyInt(0)) THEN <<CapInfo(ni.inst \o "PB", cs[2], ni.bias, sub_name)>>
     ELSE <<>>) \o
    (IF ~PyEq(cs[3], PyInt(0)) THEN <<CapInfo(ni.inst \o "PI", cs[3], ni.in, sub_name)>>
     ELSE <<>>) \o
    (IF ~PyEq(cs[4], PyInt(0)) THEN <<CapInfo(ni.inst \o "PO", cs[4], ni.out, sub_name)>>
     ELSE <<>>)

\* line 163: the branch that removes the capacitors
RemoveCapsMutNever(extracted) == FALSE
RemoveCaps(extracted) == extracted

\* lines 156-182
DesignCaps ==
    /\ gen = "hpf" /\ pc = "cap"
    /\ IF RemoveCaps(hp.extracted)
       THEN /\ removed' = removed \cup {cap_name_info[k].inst : k \in 1..2}
            /\ UNCHANGED <<arrayed, caps>>
       ELSE LET cs == CapStrings(hp.cap_val)
                lst(k) == CapInfoList(cap_name_info[k], cs, hp.sub_name)
            IN /\ arrayed' = arrayed \cup
                     {[inst |-> cap_name_info[k].inst,
                       names |-> [j \in 1..Len(lst(k)) |-> lst(k)[j].name]] : k \in 1..2}
               /\ caps' = caps \cup
                     UNION {{lst(k)[j] : j \in 1..Len(lst(k))} : k \in 1..2}
               /\ UNCHANGED removed
    /\ pc' = "bulk"
    /\ UNCHANGED <<gen, err, rdacVars, hp, sch_pins, designed, mres>>

\* line 184
RenameBulk ==
    /\ gen = "hpf" /\ pc = "bulk"
    /\ sch_pins' = RenamePin(sch_pins, "BULK", hp.sub_name)
    /\ pc' = "done"
    /\ UNCHANGED <<gen, err, rdacVars, hp, removed, designed, mres, arrayed, caps>>

(***************************************************************************)
(* The specification                                                       *)
(***************************************************************************)

\* the variables of the generator that was not invoked stay at rest
RdacIdle ==
    /\ params = [num_dec |-> 1, num_sel_row |-> 1, num_sel_col |-> 1]
    /\ res_master = [w |-> 0, h |-> 0, coord0 |-> 0]
    /\ dec_master = [w |-> 0, h |-> 0, coord0 |-> 0]
    /\ h_pitch = 0
    /\ tot_w = 0 /\ tot_h = 0 /\ start_x = 0 /\ off_y = 0 /\ idx = 0
    /\ dec_list = <<>> /\ instances = {} /\ wires = {} /\ pins = {} /\ conns = {}
    /\ size = <<>> /\ sch_params = <<>>

HpfIdle ==
    /\ hp = [nser |-> 1, ndum |-> PyInt(0), res_in_info |-> None, res_out_info |-> None,
             sub_name |-> "VDD", bias_diff |-> TRUE, connect_res_to_cap_res_metal |-> TRUE,
             connect_dum_to_sub |-> FALSE, cap_val |-> PyFloat(1), extracted |-> FALSE]
    /\ sch_pins = {} /\ removed = {} /\ designed = {} /\ mres = {} /\ arrayed = {}
    /\ caps = {}

Init ==
    /\ pc = "start"
    /\ err = "none"
    /\ \/ gen = "rdac" /\ RdacInit /\ HpfIdle
       \/ gen = "hpf" /\ HpfInit /\ RdacIdle

Next ==
    \/ MakeMasters
    \/ CheckCoord
    \/ PlaceDecoders
    \/ PlaceLadder
    \/ ExportSel
    \/ ExportOut
    \/ ConnectTap
    \/ Supplies
    \/ SetSchParams
    \/ MergeBias
    \/ DesignResistors
    \/ DesignDummies
    \/ DesignMetalRes
    \/ DesignCaps
    \/ RenameBulk

Spec == Init /\ [][Next]_vars
(***************************************************************************)
(* Properties                                                              *)
(***************************************************************************)

Decoders == {i \in instances : i.master = "dec"}
PinNames == {p.name : p \in pins}
SignalPinNames == PinNames \ {Plain("VDD"), Plain("VSS")}
NothingProduced ==
    instances = {} /\ wires = {} /\ pins = {} /\ conns = {} /\ size = <<>> /\ sch_params = <<>>

\* C1: draw_layout with num_dec outside {1,2} never gets past the branch on
\* num_dec, stops only in a raised error, and up to and including the error no
\* instance is added, no wire drawn, no pin exported and neither the size nor
\* sch_params is set.
C1_UnsupportedNumDecRaises ==
    (gen = "rdac" /\ params.num_dec \notin {1, 2}) =>
        /\ pc \in {"start", "assert", "place_dec", "error"}
        /\ (pc = "error" => err \in {"AssertionError", "ValueError"})
        /\ (pc # "error" => ENABLED Next)
        /\ NothingProduced

C1_Witness ==
    gen = "rdac" /\ params.num_dec \notin {1, 2} /\ pc = "error" /\ err = "ValueError"

\* C2: when draw_layout completes, num_dec=1 gives one decoder and the signal pins
\* sel<i> (i < num_sel_row+num_sel_col) and out; num_dec=2 gives two decoders and
\* the signal pins sel0<i>, sel1<i>, out0, out1; in both cases one VDD and one VSS
\* pin carry the supplies of the ladder and of every decoder.
C2_PinsAndDecoders ==
    (gen = "rdac" /\ pc = "done") =>
        LET n == params.num_sel_row + params.num_sel_col
        IN /\ params.num_dec = 1 =>
                /\ Cardinality(Decoders) = 1
                /\ SignalPinNames = {<<"sel", i>> : i \in 0..(n - 1)} \cup {<<"out", -1>>}
           /\ params.num_dec = 2 =>
                /\ Cardinality(Decoders) = 2
                /\ SignalPinNames =
                     {<<"sel0", i>> : i \in 0..(n - 1)} \cup
                     {<<"sel1", i>> : i \in 0..(n - 1)} \cup
                     {<<"out0", -1>>, <<"out1", -1>>}
           /\ \A net \in {"VDD", "VSS"} :
                /\ Cardinality({p \in pins : p.name = <<net, -1>>}) = 1
                /\ \A p \in pins : p.name = <<net, -1>> =>
                     p.src = {<<i.name, <<net, -1>>>> : i \in instances}
           /\ Cardinality({i \in instances : i.master = "res"}) = 1

C2_Witness ==
    gen = "rdac" /\ pc = "done" /\ params.num_dec = 2 /\ <<"sel1", 1>> \in PinNames

\* C3: when draw_layout completes, every tap idx in 0 .. 2^num_sel - 1 of the ladder
\* is connected to in<idx> of every decoder present, and no connection joins a tap
\* to an input of another index or to an index outside the range.
C3_TapsConnected ==
    (gen = "rdac" /\ pc = "done") =>
        LET last == 2 ^ (params.num_sel_row + params.num_sel_col) - 1
        IN /\ \A i \in 0..last : \A d \in Decoders :
                [dec |-> d.name, in |-> i, out |-> i] \in conns
           /\ \A c \in conns :
                c.in = c.out /\ c.in \in 0..last /\ c.dec \in {d.name : d \in Decoders}

C3_Witness ==
    /\ gen = "rdac" /\ pc = "done" /\ params.num_dec = 2
    /\ [dec |-> "dec1_inst", in |-> 3, out |-> 3] \in conns

\* C4: once the geometry is read, a decoder reference coordinate that is not
\* strictly above the ladder's makes draw_layout stop in an AssertionError with no
\* instance added, whatever num_dec is.
C4_AssertBeforePlacement ==
    (gen = "rdac" /\ pc # "start" /\ ~(dec_master.coord0 > res_master.coord0)) =>
        /\ pc \in {"assert", "error"}
        /\ (pc = "error" => err = "AssertionError")
        /\ NothingProduced

C4_Witness ==
    /\ gen = "rdac" /\ pc = "error" /\ err = "AssertionError"
    /\ params.num_dec \notin {1, 2}
    /\ dec_master.coord0 = res_master.coord0

\* ndum given as zero: the integer 0, a tuple whose counts are 0, an empty tuple
NdumIsZero(ndum) ==
    \/ ndum.t = "int" /\ ndum.v[1] = 0
    \/ ndum.t = "tuple" /\ \A k \in 1..Len(ndum.v) : ndum.v[k] = 0

\* C5: with ndum = 0, once the dummy resistors have been handled both XRESPD and
\* XRESND are removed and design_resistor was not called for them.
C5_NdumZeroRemovesDummies ==
    (gen = "hpf" /\ pc \notin {"start", "res", "dum"} /\ NdumIsZero(hp.ndum)) =>
        /\ {"XRESPD", "XRESND"} \subseteq removed
        /\ \A d \in designed : d.inst \notin {"XRESPD", "XRESND"}

\* the parasitic values of cap_val: bias, input, output
Parasitics(cap_val) == IF cap_val.t = "float" THEN <<0, 0, 0>> ELSE SubSeq(cap_val.v, 2, 4)

\* C6: with extracted=False, each of XCAPP and XCAPN is replicated into the main
\* capacitor C plus PB, PI, PO exactly for the non-zero parasitic values.
C6_CapVariants ==
    (gen = "hpf" /\ pc \in {"bulk", "done"} /\ ~hp.extracted) =>
        \A base \in {"XCAPP", "XCAPN"} :
            LET par == Parasitics(hp.cap_val)
                want == {base \o "C"} \cup
                        (IF par[1] # 0 THEN {base \o "PB"} ELSE {}) \cup
                        (IF par[2] # 0 THEN {base \o "PI"} ELSE {}) \cup
                        (IF par[3] # 0 THEN {base \o "PO"} ELSE {})
            IN \E a \in arrayed :
                  a.inst = base /\ {a.names[j] : j \in 1..Len(a.names)} = want

\* C7: with extracted=True no capacitor variant is ever created, parameterized or
\* reconnected, and once the capacitor step has run XCAPP and XCAPN are removed.
C7_ExtractedRemovesCaps ==
    (gen = "hpf" /\ hp.extracted) =>
        /\ caps = {} /\ arrayed = {}
        /\ (pc \in {"bulk", "done"} => {"XCAPP", "XCAPN"} \subseteq removed)

C7_Witness ==
    /\ gen = "hpf" /\ pc = "done" /\ hp.extracted
    /\ hp.cap_val.t = "tuple" /\ hp.cap_val.v[2] # 0
    /\ {"XCAPP", "XCAPN"} \subseteq removed

NoInstanceTouched ==
    removed = {} /\ designed = {} /\ mres = {} /\ arrayed = {} /\ caps = {}
Terminals ==
    {d.plus : d \in designed} \cup {d.minus : d \in designed} \cup
    {c.plus : c \in caps} \cup {c.minus : c \in caps}

\* C8: with bias_diff=False the two bias pins are merged before any instance is
\* designed, removed or reconnected, the finished schematic has the pin bias and
\* neither biasp nor biasn, and no terminal is tied to biasp or biasn: the bias
\* terminals of both sides are on the one net bias. With bias_diff=True biasp and
\* biasn are both kept.
C8_BiasMerge ==
    /\ (gen = "hpf" /\ ~hp.bias_diff) =>
          /\ (("bias" \notin sch_pins \/ "biasn" \in sch_pins \/ "biasp" \in sch_pins)
                => NoInstanceTouched)
          /\ (pc = "done" => "bias" \in sch_pins /\ {"biasp", "biasn"} \cap sch_pins = {})
          /\ Terminals \cap {"biasp", "biasn"} = {}
          /\ \A d \in designed : d.inst \in {"XRESP", "XRESN"} => d.minus = "bias"
          /\ \A d \in designed :
               (d.inst \in {"XRESPD", "XRESND"} /\ ~hp.connect_dum_to_sub)
                  => d.plus = "bias" /\ d.minus = "bias"
          /\ \A c \in caps : c.name \in {"XCAPPPB", "XCAPNPB"} => c.plus = "bias"
    /\ (gen = "hpf" /\ hp.bias_diff /\ pc = "done") =>
          {"biasp", "biasn"} \subseteq sch_pins /\ "bias" \notin sch_pins

C8_Witness ==
    /\ gen = "hpf" /\ pc = "done" /\ ~hp.bias_diff /\ "bias" \in sch_pins
    /\ \E d \in designed : d.inst = "XRESND" /\ d.minus = "bias"
    /\ \E c \in caps : c.name = "XCAPNPB" /\ c.plus = "bias"

Abs(x) == IF x < 0 THEN -x ELSE x
LadderPlaced == gen = "rdac" /\ \E i \in instances : i.name = "res_inst"

\* C9 as stated: once the ladder is placed, its reference coordinate off_y +
\* res_coord0 is within less than one pitch of dec_coord0 (lined up, up to snapping).
C9_AlignedUpToSnapping ==
    LadderPlaced =>
        Abs((off_y + res_master.coord0) - dec_master.coord0) < h_pitch

\* C9 as amended: once the ladder is placed (the decoders being at vertical offset
\* 0), it sits at vertical offset off_y and its reference coordinate off_y +
\* res_coord0 is exactly one h_pitch below dec_coord0.
C9_OnePitchBelow ==
    LadderPlaced =>
        /\ off_y + res_master.coord0 = dec_master.coord0 - h_pitch
        /\ \A i \in instances : i.box.yl = (IF i.name = "res_inst" THEN off_y ELSE 0)

C9_Witness ==
    LadderPlaced /\ pc = "done" /\ params.num_dec = 2 /\ off_y < 0

\* C10: the box (0, 0, tot_w, tot_h) given to set_size_from_bound_box holds every
\* placed instance, the instances do not overlap horizontally, and together they
\* span exactly x in [0, tot_w].
C10_BoxIsUnion ==
    (gen = "rdac" /\ size # <<>>) =>
        /\ size = <<0, 0, tot_w, tot_h>>
        /\ \A i \in instances :
             /\ 0 <= i.box.xl /\ i.box.xl <= i.box.xh /\ i.box.xh <= tot_w
             /\ 0 <= i.box.yl /\ i.box.yl <= i.box.yh /\ i.box.yh <= tot_h
        /\ \A i, j \in instances :
             i # j => (i.box.xh <= j.box.xl \/ j.box.xh <= i.box.xl)
        /\ \A x \in 0..(tot_w - 1) :
             \E i \in instances : i.box.xl <= x /\ x + 1 <= i.box.xh

\* the net of the negative half that mirrors a net of the positive half:
\* inp becomes inn and outp becomes outn, an 'nc_' prefix is kept
MirrorNet(net) ==
    CASE net = "inp" -> "inn"
      [] net = "outp" -> "outn"
      [] net = "nc_inp" -> "nc_inn"
      [] net = "nc_outp" -> "nc_outn"
      [] OTHER -> net

\* C11: with extracted=False, once the capacitors are designed, the main capacitor
\* XCAPNC is on exactly the nets of XCAPPC with inp replaced by inn and outp by
\* outn, for every combination of res_in_info and res_out_info.
C11_MainCapsSymmetric ==
    (gen = "hpf" /\ pc \in {"bulk", "done"} /\ ~hp.extracted) =>
        \A cp \in caps : cp.name = "XCAPPC" =>
            \E cn \in caps :
                /\ cn.name = "XCAPNC"
                /\ cn.plus = MirrorNet(cp.plus)
                /\ cn.minus = MirrorNet(cp.minus)
====
